---- MODULE Spec2Model ----
(***************************************************************************)
(* Model of src/src/analysis/__init__.py: the raster loader                *)
(* (load_images_from_directory), the change detector (compare_images),     *)
(* the renderer hand-off (visualize_changes), the volume estimator         *)
(* (estimate_volume_changes) and the driver (main).                        *)
(*                                                                         *)
(* Strings are sequences of one-character strings, so that split, length,  *)
(* isdigit, count, strptime, strftime, sorted and the f-string keys are    *)
(* computed character by character.  A Python dict is a sequence of        *)
(* entries in insertion order with unique keys.                            *)
(***************************************************************************)
EXTENDS Integers, Sequences, FiniteSets, TLC

VARIABLES pc, files, i, images, resolved, results, rendered,
          volume_estimates, pixel_area, log

vars == <<pc, files, i, images, resolved, results, rendered,
          volume_estimates, pixel_area, log>>

(***************************************************************************)
(* Bounds                                                                  *)
(***************************************************************************)
MaxFiles == 3
MaxImages == 3
MaxPixel == 2

(***************************************************************************)
(* Characters and strings                                                  *)
(***************************************************************************)
Digits == <<"0", "1", "2", "3", "4", "5", "6", "7", "8", "9">>

DigitChars == {Digits[k] : k \in 1..10}

IsDigitChar(c) == c \in DigitChars

\* the value of each digit character
DigitTable == [c \in DigitChars |-> (CHOOSE k \in 1..10 : Digits[k] = c) - 1]

DigitVal(c) == DigitTable[c]

\* code point of the characters a date string is made of ('-' is 45, '0' is 48)
CharOrd(c) == IF c = "-" THEN 45 ELSE 48 + DigitVal(c)

\* str.isdigit()
IsDigitStr(s) == Len(s) > 0 /\ \A k \in 1..Len(s) : IsDigitChar(s[k])

\* str.count(c)
CountChar(s, c) == Cardinality({k \in 1..Len(s) : s[k] = c})

\* int() of the digits s[lo..hi]
RECURSIVE NumVal(_, _, _)
NumVal(s, lo, hi) == IF hi < lo THEN 0 ELSE 10 * NumVal(s, lo, hi - 1) + DigitVal(s[hi])

\* Python's < on two strings: decided at the first position where they
\* differ, a proper prefix being the smaller
StrLess(a, b) ==
    LET n == IF Len(a) < Len(b) THEN Len(a) ELSE Len(b)
        D == {k \in 1..n : a[k] # b[k]}
    IN IF D = {} THEN Len(a) < Len(b)
       ELSE LET k == CHOOSE x \in D : \A y \in D : x <= y
            IN CharOrd(a[k]) < CharOrd(b[k])

(***************************************************************************)
(* datetime: strptime and strftime                                         *)
(***************************************************************************)
IsLeap(y) == (y % 4 = 0 /\ y % 100 # 0) \/ y % 400 = 0

DaysInMonth(y, m) ==
    IF m = 2 THEN (IF IsLeap(y) THEN 29 ELSE 28)
    ELSE IF m \in {4, 6, 9, 11} THEN 30 ELSE 31

ValidDate(y, m, d) == y >= 1 /\ m \in 1..12 /\ d \in 1..DaysInMonth(y, m)

\* a datetime value, or the ValueError strptime raises
DateObj(y, m, d) == [ok |-> TRUE, y |-> y, m |-> m, d |-> d]
ValueError == [ok |-> FALSE, y |-> 0, m |-> 0, d |-> 0]

\* datetime.strptime(part, '%Y%m%d') for an 8-digit part
StrptimeYmd(part) ==
    LET y == NumVal(part, 1, 4)
        m == NumVal(part, 5, 6)
        d == NumVal(part, 7, 8)
    IN IF Len(part) = 8 /\ IsDigitStr(part) /\ ValidDate(y, m, d)
       THEN DateObj(y, m, d) ELSE ValueError

\* datetime.strptime(part, '%Y-%m-%d') for a 10-character part with two '-'
StrptimeIso(part) ==
    LET shaped == /\ Len(part) = 10
                  /\ part[5] = "-" /\ part[8] = "-"
                  /\ \A k \in {1, 2, 3, 4, 6, 7} : IsDigitChar(part[k])
                  /\ \/ IsDigitChar(part[9]) /\ IsDigitChar(part[10])
                     \/ part[9] = " " /\ IsDigitChar(part[10]) /\ part[10] # "0"
        y == NumVal(part, 1, 4)
        m == NumVal(part, 6, 7)
        d == IF part[9] = " " THEN DigitVal(part[10]) ELSE NumVal(part, 9, 10)
    IN IF shaped /\ ValidDate(y, m, d) THEN DateObj(y, m, d) ELSE ValueError

\* zero-padded decimal of width w
RECURSIVE Pad(_, _)
Pad(n, w) == IF w = 0 THEN <<>> ELSE Pad(n \div 10, w - 1) \o <<Digits[(n % 10) + 1]>>

\* date_obj.strftime('%Y-%m-%d'), years 1000..9999
Strftime(date_obj) ==
    Pad(date_obj.y, 4) \o <<"-">> \o Pad(date_obj.m, 2) \o <<"-">> \o Pad(date_obj.d, 2)

(***************************************************************************)
(* load_images_from_directory: date resolution                             *)
(***************************************************************************)
\* the test of line 40
IsYmdPart(part) == Len(part) = 8 /\ IsDigitStr(part)

\* the test of line 44
IsIsoPart(part) == Len(part) = 10 /\ CountChar(part, "-") = 2

\* the for/else of lines 39-51 inside the try of line 34: the first part that
\* passes either test is parsed and ends the scan; via records which branch
\* produced date_obj
RECURSIVE ScanParts(_, _, _)
ScanParts(parts, k, ctime) ==
    IF k > Len(parts) THEN [date_obj |-> ctime, via |-> "no_date"]
    ELSE IF IsYmdPart(parts[k])
         THEN LET date_obj == StrptimeYmd(parts[k])
              IN IF date_obj.ok THEN [date_obj |-> date_obj, via |-> "ymd"]
                 ELSE [date_obj |-> ctime, via |-> "error"]
    ELSE IF IsIsoPart(parts[k])
         THEN LET date_obj == StrptimeIso(parts[k])
              IN IF date_obj.ok THEN [date_obj |-> date_obj, via |-> "iso"]
                 ELSE [date_obj |-> ctime, via |-> "error"]
    ELSE ScanParts(parts, k + 1, ctime)

\* a scan that looks for an 8-digit part in every position before it looks
\* for a 10-character part
TwoPassResolve(parts, ctime) ==
    LET K8 == {k \in 1..Len(parts) : IsYmdPart(parts[k])}
        K10 == {k \in 1..Len(parts) : IsIsoPart(parts[k])}
        k8 == CHOOSE k \in K8 : \A j \in K8 : k <= j
        k10 == CHOOSE k \in K10 : \A j \in K10 : k <= j
    IN IF K8 # {}
       THEN (IF StrptimeYmd(parts[k8]).ok
             THEN [date_obj |-> StrptimeYmd(parts[k8]), via |-> "ymd"]
             ELSE [date_obj |-> ctime, via |-> "error"])
       ELSE IF K10 # {}
       THEN (IF StrptimeIso(parts[k10]).ok
             THEN [date_obj |-> StrptimeIso(parts[k10]), via |-> "iso"]
             ELSE [date_obj |-> ctime, via |-> "error"])
       ELSE [date_obj |-> ctime, via |-> "no_date"]

\* lines 31-55: parts is filename.split('_'), ctime the datetime of the
\* file's os.path.getctime
ResolveDate(parts, ctime) == ScanParts(parts, 1, ctime)

\* line 57
DateStr(parts, ctime) == Strftime(ResolveDate(parts, ctime).date_obj)

(***************************************************************************)
(* dict: entries [key, val] in insertion order, keys unique                *)
(***************************************************************************)
Keys(d) == [k \in 1..Len(d) |-> d[k].key]

HasKey(d, key) == \E k \in 1..Len(d) : d[k].key = key

Get(d, key) == d[CHOOSE k \in 1..Len(d) : d[k].key = key].val

\* a store that leaves an existing entry alone (dict.setdefault)
DictSetDefault(d, key, val) ==
    IF HasKey(d, key) THEN d ELSE Append(d, [key |-> key, val |-> val])

\* d[key] = val: an existing key keeps its position and takes the new value
DictSet(d, key, val) ==
    IF HasKey(d, key)
    THEN [k \in 1..Len(d) |-> IF d[k].key = key THEN [key |-> key, val |-> val] ELSE d[k]]
    ELSE Append(d, [key |-> key, val |-> val])

(***************************************************************************)
(* numpy arrays: shape (bands, height, width) and the pixels in C order    *)
(***************************************************************************)
Size(shape) == shape[1] * shape[2] * shape[3]

Array(shape, px) == [shape |-> shape, px |-> px]

RECURSIVE SeqSum(_)
SeqSum(s) == IF Len(s) = 0 THEN 0 ELSE s[1] + SeqSum(Tail(s))

\* np.max of a non-empty array
SeqMax(s) == CHOOSE x \in {s[k] : k \in 1..Len(s)} : \A k \in 1..Len(s) : s[k] <= x

Abs(x) == IF x < 0 THEN 0 - x ELSE x

\* arr[0]: the first band
Band0(a) == SubSeq(a.px, 1, a.shape[2] * a.shape[3])

(***************************************************************************)
(* load_images_from_directory: one file                                    *)
(***************************************************************************)
\* lines 66-74; file_path is the position of the file in the glob result
Metadata(file, path) ==
    [width |-> file.decode.shape[3], height |-> file.decode.shape[2],
     count |-> file.decode.shape[1], file_path |-> path]

\* a loader that records an entry without pixels for a file that fails to decode
LoadOneKeepFailed(imgs, file, path) ==
    LET date_str == DateStr(file.stem, file.ctime)
    IN IF ~file.opens
       THEN DictSet(imgs, date_str, [data |-> file.decode, metadata |-> Metadata(file, path)])
       ELSE DictSet(imgs, date_str, [data |-> file.decode, metadata |-> Metadata(file, path)])

\* lines 57-84: images after the loop body has run for file; rasterio.open
\* either raises (file.opens is FALSE and the entry is left out) or yields
\* the array file.decode
LoadOne(imgs, file, path) ==
    LET date_str == DateStr(file.stem, file.ctime)
    IN IF ~file.opens
       THEN imgs
       ELSE DictSet(imgs, date_str, [data |-> file.decode, metadata |-> Metadata(file, path)])

\* what the loop body prints for file (lines 51, 53, 82, 84)
LoadOneLog(file) ==
    LET via == ResolveDate(file.stem, file.ctime).via
    IN (IF via = "no_date" THEN <<"could_not_extract_date">>
        ELSE IF via = "error" THEN <<"error_extracting_date">> ELSE <<>>)
       \o (IF ~file.opens THEN <<"error_loading">> ELSE <<"loaded">>)

(***************************************************************************)
(* compare_images                                                          *)
(***************************************************************************)
None == [kind |-> "None", items |-> <<>>]
Unset == [kind |-> "unset", items |-> <<>>]
Dict(items) == [kind |-> "dict", items |-> items]

\* the keys in insertion order, not sorted
InsertionOrder(keys) == keys

\* sorted(keys): ascending by Python's string order
RECURSIVE SortedDates(_)
SortedDates(keys) ==
    IF Len(keys) = 0 THEN <<>>
    ELSE LET m == CHOOSE k \in 1..Len(keys) :
                     \A j \in 1..Len(keys) : j = k \/ StrLess(keys[k], keys[j])
             rest == [j \in 1..(Len(keys) - 1) |-> IF j < m THEN keys[j] ELSE keys[j + 1]]
         IN <<keys[m]>> \o SortedDates(rest)

\* a test that compares height and width only
DimensionsDiffer(image1, image2) ==
    <<image1.shape[2], image1.shape[3]>> # <<image2.shape[2], image2.shape[3]>>

\* line 111
ShapesDiffer(image1, image2) == image1.shape # image2.shape

\* earlier minus later
DifferenceSwapped(image1, image2) ==
    Array(image2.shape, [k \in 1..Len(image2.px) |-> image1.px[k] - image2.px[k]])

\* line 118: image2.astype(float) - image1.astype(float)
Difference(image1, image2) ==
    Array(image2.shape, [k \in 1..Len(image2.px) |-> image2.px[k] - image1.px[k]])

\* line 121
AbsDifference(difference) ==
    Array(difference.shape, [k \in 1..Len(difference.px) |-> Abs(difference.px[k])])

\* line 126: each element is num / (base + epsilon)
PercentageChange(difference, image1) ==
    Array(difference.shape,
          [k \in 1..Len(difference.px) |-> [num |-> difference.px[k] * 100, base |-> image1.px[k]]])

\* line 130: np.mean is the sum over the element count, kept as a fraction
Mean(a) == [num |-> SeqSum(a.px), den |-> Len(a.px)]

\* f"{date1}_to_{date2}"
PeriodKey(date1, date2) == date1 \o <<"_", "t", "o", "_">> \o date2

\* lines 117-143: the entry stored for one pair
ChangeResult(date1, date2, image1, image2) ==
    LET difference == Difference(image1, image2)
        abs_difference == AbsDifference(difference)
    IN [difference |-> difference,
        abs_difference |-> abs_difference,
        percentage_change |-> PercentageChange(difference, image1),
        total_difference |-> SeqSum(abs_difference.px),
        mean_difference |-> Mean(abs_difference),
        max_difference |-> SeqMax(abs_difference.px),
        date1 |-> date1,
        date2 |-> date2]

\* lines 103-143: the loop from index k (1-based) on, results so far in acc
RECURSIVE CompareLoop(_, _, _, _)
CompareLoop(image_dict, dates, k, acc) ==
    IF k > Len(dates) - 1 THEN acc
    ELSE LET date1 == dates[k]
             date2 == dates[k + 1]
             image1 == Get(image_dict, date1).data
             image2 == Get(image_dict, date2).data
         IN IF ShapesDiffer(image1, image2)
            THEN CompareLoop(image_dict, dates, k + 1, acc)
            ELSE CompareLoop(image_dict, dates, k + 1,
                             DictSet(acc, PeriodKey(date1, date2),
                                     ChangeResult(date1, date2, image1, image2)))

\* lines 92-150
CompareImages(image_dict) ==
    IF Len(image_dict) < 2 THEN None
    ELSE Dict(CompareLoop(image_dict, SortedDates(Keys(image_dict)), 1, <<>>))

\* what compare_images prints (lines 93, 112, 145)
RECURSIVE CompareLoopLog(_, _, _)
CompareLoopLog(image_dict, dates, k) ==
    IF k > Len(dates) - 1 THEN <<>>
    ELSE (IF ShapesDiffer(Get(image_dict, dates[k]).data, Get(image_dict, dates[k + 1]).data)
          THEN <<"shape_warning">> ELSE <<"comparison">>)
         \o CompareLoopLog(image_dict, dates, k + 1)

CompareLog(image_dict) ==
    IF Len(image_dict) < 2 THEN <<"need_two_to_compare">>
    ELSE CompareLoopLog(image_dict, SortedDates(Keys(image_dict)), 1)

(***************************************************************************)
(* visualize_changes                                                       *)
(***************************************************************************)
\* lines 178-180: abs_difference[0] with the values under a tenth of
\* max_difference set to 0
Thresholded(data) ==
    LET band == Band0(data.abs_difference)
    IN [k \in 1..Len(band) |-> IF band[k] * 10 < data.max_difference THEN 0 ELSE band[k]]

\* lines 159-192: one artifact per period, in the order of results.items()
VisualizeChanges(items) ==
    [k \in 1..Len(items) |->
        [date1 |-> items[k].val.date1,
         date2 |-> items[k].val.date2,
         difference |-> Band0(items[k].val.difference),
         abs_difference |-> Band0(items[k].val.abs_difference),
         thresholded |-> Thresholded(items[k].val)]]

(***************************************************************************)
(* estimate_volume_changes                                                 *)
(***************************************************************************)
DefaultPixelArea == 100

\* line 209
VolumeChangePerPixel(difference, area) ==
    [k \in 1..Len(difference.px) |-> difference.px[k] * area]

\* np.sum(v[v < 0]) and np.sum(v[v > 0])
SumNegative(v) == SeqSum([k \in 1..Len(v) |-> IF v[k] < 0 THEN v[k] ELSE 0])
SumPositive(v) == SeqSum([k \in 1..Len(v) |-> IF v[k] > 0 THEN v[k] ELSE 0])

\* the removed volume without the sign change
MaterialRemovedSigned(v) == SumNegative(v)

\* line 212
MaterialRemoved(v) == 0 - SumNegative(v)

\* line 215
MaterialAdded(v) == SumPositive(v)

\* lines 202-224: the estimate of one period
VolumeEstimate(data, area) ==
    LET v == VolumeChangePerPixel(data.difference, area)
        material_removed == MaterialRemoved(v)
        material_added == MaterialAdded(v)
    IN [material_removed_m3 |-> material_removed,
        material_added_m3 |-> material_added,
        net_change_m3 |-> material_added - material_removed]

\* lines 199-231
RECURSIVE EstimateLoop(_, _, _, _)
EstimateLoop(items, area, k, acc) ==
    IF k > Len(items) THEN acc
    ELSE EstimateLoop(items, area, k + 1,
                      DictSet(acc, items[k].key, VolumeEstimate(items[k].val, area)))

EstimateVolumeChanges(items, area) == EstimateLoop(items, area, 1, <<>>)

(***************************************************************************)
(* main                                                                    *)
(***************************************************************************)
\* a check that lets a single image through
TooFewLessThanOne(imgs) == Len(imgs) < 1

\* a check that also stops on exactly two images
TooFewLessThanThree(imgs) == Len(imgs) < 3

\* line 246
TooFew(imgs) == Len(imgs) < 2

(***************************************************************************)
(* Inputs                                                                  *)
(***************************************************************************)
SegSite == <<"s", "i", "t", "e">>
Seg2023 == <<"2", "0", "2", "3">>
Seg01 == <<"0", "1">>
Seg15 == <<"1", "5">>
SegYmd0210 == <<"2", "0", "2", "3", "0", "2", "1", "0">>
SegYmd0301 == <<"2", "0", "2", "3", "0", "3", "0", "1">>
SegYmdBad == <<"2", "0", "2", "3", "1", "3", "0", "1">>
SegIso0115 == <<"2", "0", "2", "3", "-", "0", "1", "-", "1", "5">>
SegIsoBad == <<"2", "0", "2", "3", "-", "0", "2", "-", "3", "0">>

\* filename stems, already split on '_'
StemSiteYmdIso == <<SegSite, SegYmd0301, SegIso0115>>
StemIsoYmd == <<SegIso0115, SegYmd0210>>
StemBadYmdYmd == <<SegYmdBad, SegYmd0210>>
StemBadIsoYmd == <<SegIsoBad, SegYmd0210>>
StemUnderscored == <<SegSite, Seg2023, Seg01, Seg15>>

\* datetimes of file timestamps
CTimeA == DateObj(2024, 1, 5)
CTimeB == DateObj(2023, 2, 10)

\* (stem, timestamp) of the files a directory may hold
NamedFiles ==
    {<<StemSiteYmdIso, CTimeA>>, <<StemIsoYmd, CTimeA>>,
     <<StemBadYmdYmd, CTimeA>>, <<StemBadIsoYmd, CTimeB>>,
     <<StemUnderscored, CTimeA>>}

NoArray == Array(<<0, 0, 0>>, <<>>)

\* what rasterio yields for the files of a directory: a decode error, or one
\* of two arrays of different shapes
FileContents ==
    {[opens |-> FALSE, decode |-> NoArray],
     [opens |-> TRUE, decode |-> Array(<<1, 1, 1>>, <<MaxPixel>>)],
     [opens |-> TRUE, decode |-> Array(<<1, 1, 2>>, <<0, MaxPixel>>)]}

FilePool ==
    {[stem |-> nf[1], ctime |-> nf[2], opens |-> c.opens, decode |-> c.decode] :
        nf \in NamedFiles, c \in FileContents}

\* the glob results of n files
FileLists(n) == [1..n -> FilePool]

\* arrays handed to compare_images directly
Shapes == {<<1, 1, 1>>, <<2, 1, 1>>}
PixelValues == 0..MaxPixel
Rasters == UNION {{Array(sh, px) : px \in [1..Size(sh) -> PixelValues]} : sh \in Shapes}

DatePool == {Strftime(DateObj(2023, 3, 1)), Strftime(DateObj(2023, 1, 15)),
             Strftime(DateObj(2023, 2, 10))}

ImageEntry(date_str, data) ==
    [key |-> date_str,
     val |-> [data |-> data,
              metadata |-> [width |-> data.shape[3], height |-> data.shape[2],
                            count |-> data.shape[1], file_path |-> 0]]]

\* the insertion orders of n distinct dates
DateOrders(n) == {d \in [1..n -> DatePool] : \A a, b \in 1..n : a # b => d[a] # d[b]}

PixelAreas == {1, DefaultPixelArea}

(***************************************************************************)
(* The pipeline run by main                                                *)
(***************************************************************************)
Init ==
    /\ pc = "load"
    /\ \E n \in 0..MaxFiles : files \in FileLists(n)
    /\ i = 0
    /\ images = <<>>
    /\ resolved = <<>>
    /\ results = Unset
    /\ rendered = <<>>
    /\ volume_estimates = <<>>
    /\ pixel_area = DefaultPixelArea
    /\ log = <<>>

\* lines 21-23: no files, the empty dict is returned
LoadNoFiles ==
    /\ pc = "load"
    /\ Len(files) = 0
    /\ log' = log \o <<"no_tiff_files">>
    /\ pc' = "main_check"
    /\ UNCHANGED <<files, i, images, resolved, results, rendered, volume_estimates, pixel_area>>

\* line 25
LoadFound ==
    /\ pc = "load"
    /\ Len(files) > 0
    /\ log' = log \o <<"found">>
    /\ i' = 1
    /\ pc' = "load_loop"
    /\ UNCHANGED <<files, images, resolved, results, rendered, volume_estimates, pixel_area>>

\* lines 27-84: one iteration of the loop over tiff_files
LoadFile ==
    /\ pc = "load_loop"
    /\ i <= Len(files)
    /\ resolved' = Append(resolved, DateStr(files[i].stem, files[i].ctime))
    /\ images' = LoadOne(images, files[i], i)
    /\ log' = log \o LoadOneLog(files[i])
    /\ i' = i + 1
    /\ UNCHANGED <<pc, files, results, rendered, volume_estimates, pixel_area>>

\* line 86
LoadReturn ==
    /\ pc = "load_loop"
    /\ i > Len(files)
    /\ pc' = "main_check"
    /\ UNCHANGED <<files, i, images, resolved, results, rendered, volume_estimates, pixel_area, log>>

\* lines 246-248
MainTooFew ==
    /\ pc = "main_check"
    /\ TooFew(images)
    /\ log' = log \o <<"main_need_two">>
    /\ pc' = "done"
    /\ UNCHANGED <<files, i, images, resolved, results, rendered, volume_estimates, pixel_area>>

\* lines 250-252, up to the call
MainProceed ==
    /\ pc = "main_check"
    /\ ~TooFew(images)
    /\ pc' = "compare"
    /\ UNCHANGED <<files, i, images, resolved, results, rendered, volume_estimates, pixel_area, log>>

\* results = compare_images(images)
Compare ==
    /\ pc = "compare"
    /\ results' = CompareImages(images)
    /\ log' = log \o CompareLog(images)
    /\ pc' = "visualize"
    /\ UNCHANGED <<files, i, images, resolved, rendered, volume_estimates, pixel_area>>

\* visualize_changes(results, output_dir); results.items() raises on None
Visualize ==
    /\ pc = "visualize"
    /\ IF results.kind = "dict"
       THEN /\ rendered' = VisualizeChanges(results.items)
            /\ pc' = "estimate"
       ELSE /\ rendered' = rendered
            /\ pc' = "raised"
    /\ UNCHANGED <<files, i, images, resolved, results, volume_estimates, pixel_area, log>>

\* estimate_volume_changes(results, area), then line 263
Estimate(area) ==
    /\ pc = "estimate"
    /\ pixel_area' = area
    /\ IF results.kind = "dict"
       THEN /\ volume_estimates' = EstimateVolumeChanges(results.items, area)
            /\ log' = log \o [k \in 1..Len(results.items) |-> "volume"] \o <<"complete">>
            /\ pc' = "done"
       ELSE /\ volume_estimates' = volume_estimates
            /\ log' = log
            /\ pc' = "raised"
    /\ UNCHANGED <<files, i, images, resolved, results, rendered>>

\* line 261: main passes no pixel_area
MainEstimate == Estimate(DefaultPixelArea)

Next ==
    \/ LoadNoFiles
    \/ LoadFound
    \/ LoadFile
    \/ LoadReturn
    \/ MainTooFew
    \/ MainProceed
    \/ Compare
    \/ Visualize
    \/ MainEstimate

Spec == Init /\ [][Next]_vars

(***************************************************************************)
(* The three stages called on an arbitrary collection                      *)
(***************************************************************************)
InitDirect ==
    /\ pc = "compare"
    /\ files = <<>>
    /\ i = 0
    /\ \E n \in 0..MaxImages :
          \E ds \in DateOrders(n), rs \in [1..n -> Rasters] :
             images = [k \in 1..n |-> ImageEntry(ds[k], rs[k])]
    /\ resolved = <<>>
    /\ results = Unset
    /\ rendered = <<>>
    /\ volume_estimates = <<>>
    /\ pixel_area = DefaultPixelArea
    /\ log = <<>>

DirectEstimate == \E area \in PixelAreas : Estimate(area)

NextDirect ==
    \/ Compare
    \/ Visualize
    \/ DirectEstimate

SpecDirect == InitDirect /\ [][NextDirect]_vars


(***************************************************************************)
(* Vocabulary of the properties                                            *)
(***************************************************************************)
Indices(s) == 1..Len(s)

KeySet(d) == {d[k].key : k \in Indices(d)}

\* compare_images has returned
Compared == results.kind # "unset"

\* load_images_from_directory has returned
Loaded == pc \notin {"load", "load_loop"}

\* the keys at positions x and y of d are in ascending order with no key of d
\* strictly between them
AdjacentAt(d, x, y) ==
    /\ StrLess(d[x].key, d[y].key)
    /\ \A z \in Indices(d) : ~(StrLess(d[x].key, d[z].key) /\ StrLess(d[z].key, d[y].key))

\* a and b are keys of d with a < b and no key of d strictly between them
AdjacentDates(d, a, b) ==
    \E x, y \in Indices(d) : d[x].key = a /\ d[y].key = b /\ AdjacentAt(d, x, y)

DataOf(d, key) == d[CHOOSE k \in Indices(d) : d[k].key = key].val.data

SameShapes(d) == \A a, b \in Indices(d) : d[a].val.data.shape = d[b].val.data.shape

NoValidPair(d) ==
    \A x, y \in Indices(d) :
        AdjacentAt(d, x, y) => d[x].val.data.shape # d[y].val.data.shape

Printed(msg) == \E k \in Indices(log) : log[k] = msg

D0115 == <<"2", "0", "2", "3", "-", "0", "1", "-", "1", "5">>
D0210 == <<"2", "0", "2", "3", "-", "0", "2", "-", "1", "0">>
D0301 == <<"2", "0", "2", "3", "-", "0", "3", "-", "0", "1">>

(***************************************************************************)
(* Properties                                                              *)
(***************************************************************************)
\* C1: for a collection of n >= 2 rasters of one shape, in any insertion
\* order, compare_images returns exactly n-1 results, each keyed
\* "{date1}_to_{date2}" for two dates adjacent in ascending order with
\* date1 < date2, and the results are inserted in ascending date order.
C1_AdjacentPairsInDateOrder ==
    (Compared /\ Len(images) >= 2 /\ SameShapes(images)) =>
        /\ results.kind = "dict"
        /\ Len(results.items) = Len(images) - 1
        /\ \A k \in Indices(results.items) :
              LET r == results.items[k]
              IN /\ r.key = r.val.date1 \o <<"_", "t", "o", "_">> \o r.val.date2
                 /\ AdjacentDates(images, r.val.date1, r.val.date2)
        /\ \A k \in 1..(Len(results.items) - 1) :
              StrLess(results.items[k].val.date1, results.items[k + 1].val.date1)

\* C1 witness: the dates 2023-03-01, 2023-01-15, 2023-02-10 inserted in that
\* order give 2023-01-15_to_2023-02-10 then 2023-02-10_to_2023-03-01.
C1_Witness ==
    /\ Compared
    /\ Keys(images) = <<D0301, D0115, D0210>>
    /\ SameShapes(images)
    /\ results.kind = "dict"
    /\ Keys(results.items) = <<D0115 \o <<"_", "t", "o", "_">> \o D0210,
                               D0210 \o <<"_", "t", "o", "_">> \o D0301>>

\* C2: called with fewer than two entries, compare_images returns a mapping
\* with no entries and prints that the comparison was skipped.
C2_EmptyMappingWhenFewerThanTwo ==
    (Compared /\ Len(images) < 2) =>
        /\ results.kind = "dict"
        /\ results.items = <<>>
        /\ Printed("need_two_to_compare")

\* C3: an adjacent pair of differing shapes gives no result, every adjacent
\* pair of equal shapes gives one, and no result pairs two dates that are
\* not adjacent in the sorted order.
C3_MismatchedPairDropped ==
    (Compared /\ Len(images) >= 2) =>
        /\ results.kind = "dict"
        /\ \A x, y \in Indices(images) :
              AdjacentAt(images, x, y) =>
                  ((images[x].val.data.shape = images[y].val.data.shape)
                      <=> (\E k \in Indices(results.items) :
                              /\ results.items[k].val.date1 = images[x].key
                              /\ results.items[k].val.date2 = images[y].key))
        /\ \A k \in Indices(results.items) :
              AdjacentDates(images, results.items[k].val.date1, results.items[k].val.date2)

\* C3 witness: three dates, the first sorted pair differs in shape, the
\* second pair matches and is the only result.
C3_Witness ==
    /\ Compared
    /\ Len(images) = 3
    /\ DataOf(images, D0115).shape # DataOf(images, D0210).shape
    /\ DataOf(images, D0210).shape = DataOf(images, D0301).shape
    /\ results.kind = "dict"
    /\ Len(results.items) = 1
    /\ results.items[1].val.date1 = D0210

\* C4: in every result, difference is later minus earlier at every pixel,
\* abs_difference its absolute value, total_difference the sum of
\* abs_difference, mean_difference times the pixel count total_difference,
\* and max_difference an element of abs_difference that bounds all of them.
C4_DifferenceStatistics ==
    (Compared /\ results.kind = "dict") =>
        \A k \in Indices(results.items) :
            LET r == results.items[k].val
                earlier == DataOf(images, r.date1)
                later == DataOf(images, r.date2)
                n == Len(later.px)
            IN /\ Len(r.difference.px) = n /\ Len(r.abs_difference.px) = n
               /\ \A x \in 1..n : r.difference.px[x] = later.px[x] - earlier.px[x]
               /\ \A x \in 1..n :
                     /\ r.abs_difference.px[x] >= 0
                     /\ r.abs_difference.px[x] \in {r.difference.px[x], 0 - r.difference.px[x]}
               /\ r.total_difference = SeqSum(r.abs_difference.px)
               /\ r.mean_difference.num * n = r.total_difference * r.mean_difference.den
               /\ \A x \in 1..n : r.max_difference >= r.abs_difference.px[x]
               /\ \E x \in 1..n : r.max_difference = r.abs_difference.px[x]

\* C4 witness: a two-pixel pair with one pixel falling and one rising by
\* different amounts.
C4_Witness ==
    /\ Compared
    /\ results.kind = "dict"
    /\ \E k \in Indices(results.items) :
          /\ results.items[k].val.difference.px = <<0 - 2, 1>>
          /\ results.items[k].val.total_difference = 3
          /\ results.items[k].val.max_difference = 2

\* C5: for every period, with pixel area A, material_removed is the negated
\* sum of difference x A over the pixels where it is < 0, material_added the
\* sum over the pixels where it is > 0, net_change is added minus removed,
\* and the estimates have exactly the period keys of the results.
C5_VolumeEstimates ==
    (pc = "done" /\ results.kind = "dict") =>
        /\ Keys(volume_estimates) = Keys(results.items)
        /\ \A k \in Indices(results.items) :
              LET d == results.items[k].val.difference.px
                  e == volume_estimates[k].val
                  neg == [x \in Indices(d) |-> IF d[x] * pixel_area < 0 THEN d[x] * pixel_area ELSE 0]
                  pos == [x \in Indices(d) |-> IF d[x] * pixel_area > 0 THEN d[x] * pixel_area ELSE 0]
              IN /\ e.material_removed_m3 = 0 - SeqSum(neg)
                 /\ e.material_added_m3 = SeqSum(pos)
                 /\ e.net_change_m3 = e.material_added_m3 - e.material_removed_m3

\* C5 witness: one pixel of -2 with pixel area 100 gives removed 200, added
\* 0 and net -200.
C5_Witness ==
    /\ pc = "done"
    /\ pixel_area = 100
    /\ results.kind = "dict"
    /\ \E k \in Indices(results.items) :
          /\ results.items[k].val.difference.px = <<0 - 2>>
          /\ volume_estimates[k].val = [material_removed_m3 |-> 200,
                                        material_added_m3 |-> 0,
                                        net_change_m3 |-> 0 - 200]

\* the date of a file when the first part of either kind decides
FirstPartOfEitherKind(parts, ctime) ==
    LET K == {k \in Indices(parts) :
                 \/ Len(parts[k]) = 8 /\ IsDigitStr(parts[k])
                 \/ Len(parts[k]) = 10 /\ CountChar(parts[k], "-") = 2}
        k0 == CHOOSE k \in K : \A j \in K : k <= j
        parsed == IF Len(parts[k0]) = 8 THEN StrptimeYmd(parts[k0]) ELSE StrptimeIso(parts[k0])
    IN IF K = {} THEN ctime
       ELSE IF parsed.ok THEN parsed ELSE ctime

\* the date of a file when any 8-digit part takes precedence over every
\* 10-character part
EightDigitPartFirst(parts, ctime) ==
    LET K8 == {k \in Indices(parts) : Len(parts[k]) = 8 /\ IsDigitStr(parts[k])}
        K10 == {k \in Indices(parts) : Len(parts[k]) = 10 /\ CountChar(parts[k], "-") = 2}
        k8 == CHOOSE k \in K8 : \A j \in K8 : k <= j
        k10 == CHOOSE k \in K10 : \A j \in K10 : k <= j
    IN IF K8 # {}
       THEN (IF StrptimeYmd(parts[k8]).ok THEN StrptimeYmd(parts[k8]) ELSE ctime)
       ELSE IF K10 # {}
       THEN (IF StrptimeIso(parts[k10]).ok THEN StrptimeIso(parts[k10]) ELSE ctime)
       ELSE ctime

\* C6 as stated: the first 8-digit part decides if there is one, else the
\* first 10-character part with two '-', else (or on a parse failure) the
\* file's timestamp; so an 8-digit part after a YYYY-MM-DD part decides.
C6_EightDigitPrecedence ==
    \A j \in Indices(resolved) :
        resolved[j] = Strftime(EightDigitPartFirst(files[j].stem, files[j].ctime))

\* C6 amended: the first part, in order, that is either 8 digits or 10
\* characters with two '-' decides and is parsed by its own format; with no
\* such part, or when that part fails to parse, the file's timestamp is
\* used; so a YYYY-MM-DD part before an 8-digit part decides.
C6_FirstMatchingPartDecides ==
    \A j \in Indices(resolved) :
        resolved[j] = Strftime(FirstPartOfEitherKind(files[j].stem, files[j].ctime))

\* C6 witness: the stem 2023-01-15_20230210 has resolved to 2023-01-15.
C6_Witness ==
    \E j \in Indices(resolved) :
        /\ files[j].stem = <<SegIso0115, SegYmd0210>>
        /\ resolved[j] = D0115

\* C7: a file that fails to decode adds or changes no entry and the other
\* files are still processed: the dates of the collection are exactly the
\* resolved dates of the files that decoded, every entry holds the array of
\* a file that decoded, and the loader returns after processing every file.
C7_DecodeFailureSkipped ==
    /\ KeySet(images) = {resolved[j] : j \in {x \in Indices(resolved) : files[x].opens}}
    /\ \A k \in Indices(images) :
          LET path == images[k].val.metadata.file_path
          IN /\ path \in Indices(resolved)
             /\ files[path].opens
             /\ images[k].val.data = files[path].decode
    /\ pc # "raised"
    /\ Loaded => Len(resolved) = Len(files)

\* C7 witness: the loader has returned from three files of which the second
\* failed to decode and the first and third are in the collection.
C7_Witness ==
    /\ pc = "main_check"
    /\ Len(files) = 3
    /\ files[1].opens /\ ~files[2].opens /\ files[3].opens
    /\ resolved[1] # resolved[3]
    /\ KeySet(images) = {resolved[1], resolved[3]}

\* main has returned at line 248
EarlyExit == pc = "done" /\ log[Len(log)] = "main_need_two"

\* C8 as stated: main terminates early, before visualisation and volume
\* estimation, when fewer than two images loaded or when no adjacent date
\* pair has matching shapes.
C8_EarlyExitWithoutValidPair ==
    (Loaded /\ (Len(images) < 2 \/ NoValidPair(images))) =>
        /\ pc \notin {"visualize", "estimate"}
        /\ pc = "done" => EarlyExit

\* C8 amended: main terminates early with a diagnostic, before comparison,
\* visualisation and volume estimation, exactly when fewer than two images
\* loaded; with two or more images and no adjacent pair of matching shapes
\* it runs both stages on an empty result mapping and reports completion.
C8_EarlyExitOnlyBelowTwoImages ==
    /\ (Loaded /\ Len(images) < 2) =>
          /\ pc \in {"main_check", "done"}
          /\ results.kind = "unset"
          /\ pc = "done" => EarlyExit
    /\ (pc = "done" /\ Len(images) >= 2) =>
          /\ ~EarlyExit
          /\ log[Len(log)] = "complete"
          /\ results.kind = "dict"
          /\ NoValidPair(images) =>
                (results.items = <<>> /\ rendered = <<>> /\ volume_estimates = <<>>)

\* C8 witness: two files found, one failed to decode, main returned early.
C8_Witness ==
    /\ EarlyExit
    /\ Len(files) = 2
    /\ Len(images) = 1
    /\ rendered = <<>>
    /\ \E j \in Indices(files) : ~files[j].opens

\* C9: the collection has one entry per date, and the entry of a date is
\* that of the last processed file with that date that decoded.
C9_LastDecodedFileWins ==
    /\ \A a, b \in Indices(images) : images[a].key = images[b].key => a = b
    /\ \A k \in Indices(images) :
          LET S == {j \in Indices(resolved) : files[j].opens /\ resolved[j] = images[k].key}
              last == CHOOSE j \in S : \A x \in S : x <= j
          IN /\ S # {}
             /\ images[k].val.metadata.file_path = last
             /\ images[k].val.data = files[last].decode

\* C9 witness: two files of one date and different arrays both decoded and
\* the entry is the second file's.
C9_Witness ==
    /\ Len(resolved) >= 2
    /\ resolved[1] = resolved[2]
    /\ files[1].opens /\ files[2].opens
    /\ files[1].decode # files[2].decode
    /\ \E k \in Indices(images) :
          /\ images[k].key = resolved[2]
          /\ images[k].val.metadata.file_path = 2
          /\ images[k].val.data = files[2].decode

\* C10: in main, visualize_changes and estimate_volume_changes are invoked
\* with a mapping only; the fewer-than-two branch of compare_images is never
\* taken and neither stage raises on None.
C10_StagesNeverGetNone ==
    /\ pc \in {"visualize", "estimate"} => results.kind = "dict"
    /\ results.kind # "None"
    /\ ~Printed("need_two_to_compare")
    /\ pc # "raised"

\* C10 witness: a file failed to decode, two others loaded, and the volume
\* stage is about to run on the mapping that was rendered.
C10_Witness ==
    /\ pc = "estimate"
    /\ results.kind = "dict"
    /\ Len(images) = 2
    /\ \E j \in Indices(files) : ~files[j].opens
====
